---- MODULE Spec2Model ----
(***************************************************************************)
(* A model of the line-delimited JSON plugin host of src/test.py:          *)
(* DataProcessor (lazy module load, lifecycle calls, execute_with_timeout) *)
(* and ProcessEvent (start_listening, stdout_interceptor,                  *)
(* filter_processor_traceback), with print_error / print_output.           *)
(*                                                                         *)
(* Text is a sequence of tokens: the two characters JSON escapes (the      *)
(* double quote and the backslash) are tokens of their own, every other    *)
(* token is a run of plain characters.  Flat turns a text into a string.   *)
(***************************************************************************)
EXTENDS Integers, Sequences, FiniteSets, TLC

\* ------------------------------------------------------------------ bounds
MaxLines == 2
MaxPrints == 1
MaxNum == 2
MaxNest == 4
MaxFloat == 20

\* ------------------------------------------------------------ JSON values
Q == "\""
BS == "\\"

\* A quote inside d nested string encodings carries 2^d - 1 backslashes:
\* each encoding doubles the backslashes and escapes the quote.
RECURSIVE Backslashes(_)
Backslashes(d) == IF d = 0 THEN "" ELSE Backslashes(d - 1) \o Backslashes(d - 1) \o BS
QuoteToks == [d \in 0..(MaxNest + 1) |-> Backslashes(d) \o Q]
IsQuoteTok(tok) == \E d \in 0..MaxNest : QuoteToks[d] = tok
NestOf(tok) == CHOOSE d \in 0..MaxNest : QuoteToks[d] = tok

JStr(toks) == [t |-> "str", s |-> toks]
JNull == [t |-> "null"]
JNum(n) == [t |-> "num", n |-> n]
JObj(items) == [t |-> "obj", items |-> items]
\* a Python float with an integral value
PyFloat(n) == [t |-> "float", n |-> n]
\* a Python value json cannot encode (a set, an object)
PyOpaque == [t |-> "opaque"]

\* repr of a float with an integral value: 20.0
FloatText(n) == ToString(n) \o ".0"

IsDict(v) == v.t = "obj"

RECURSIVE Flat(_)
Flat(toks) == IF toks = <<>> THEN "" ELSE Head(toks) \o Flat(Tail(toks))

\* json's string escaping: a quote and the backslashes in front of it get a
\* backslash each
EscapeTok(tok) == IF IsQuoteTok(tok) THEN QuoteToks[NestOf(tok) + 1] ELSE tok
Escape(toks) == [n \in 1..Len(toks) |-> EscapeTok(toks[n])]

\* and back, for a token inside a string literal
UnescapeTok(tok) == IF IsQuoteTok(tok) THEN QuoteToks[NestOf(tok) - 1] ELSE tok

RECURSIVE Serializable(_)
Serializable(v) ==
    CASE v.t = "opaque" -> FALSE
      [] v.t = "obj" -> \A i \in 1..Len(v.items) : Serializable(v.items[i][2])
      [] OTHER -> TRUE

\* json.dumps with the default separators (", " and ": ")
RECURSIVE Dumps(_)
RECURSIVE DumpsItems(_)
Dumps(v) ==
    CASE v.t = "str" -> <<Q>> \o Escape(v.s) \o <<Q>>
      [] v.t = "null" -> <<"null">>
      [] v.t = "num" -> <<ToString(v.n)>>
      [] v.t = "float" -> <<FloatText(v.n)>>
      [] v.t = "obj" -> <<"{">> \o DumpsItems(v.items) \o <<"}">>
DumpsItems(items) ==
    IF items = <<>> THEN <<>>
    ELSE <<Q>> \o Escape(<<items[1][1]>>) \o <<Q, ": ">> \o Dumps(items[1][2])
         \o (IF Len(items) > 1 THEN <<", ">> \o DumpsItems(Tail(items)) ELSE <<>>)

\* json.loads: [ok |-> FALSE] is the ValueError, otherwise v is the value
NoParse == [ok |-> FALSE]
IsNumTok(tok) == \E n \in 0..MaxNum : ToString(n) = tok
NumOf(tok) == CHOOSE n \in 0..MaxNum : ToString(n) = tok

\* the string literal whose content starts at i: it ends at the first quote
\* that is not escaped; [ok, s, next] with next the position after it
ParseString(toks, i) ==
    LET closers == {j \in i..Len(toks) : toks[j] = Q}
    IN  IF closers = {} THEN NoParse
        ELSE LET close == CHOOSE j \in closers : \A c \in closers : j <= c
             IN  [ok |-> TRUE,
                  s |-> [n \in 1..(close - i) |-> UnescapeTok(toks[i + n - 1])],
                  next |-> close + 1]

RECURSIVE ParseValue(_, _)
RECURSIVE ParseMembers(_, _, _)
ParseValue(toks, i) ==
    IF i > Len(toks) THEN NoParse
    ELSE IF toks[i] = Q
         THEN LET r == ParseString(toks, i + 1)
              IN  IF r.ok THEN [ok |-> TRUE, v |-> JStr(r.s), next |-> r.next] ELSE NoParse
    ELSE IF toks[i] = "null" THEN [ok |-> TRUE, v |-> JNull, next |-> i + 1]
    ELSE IF IsNumTok(toks[i]) THEN [ok |-> TRUE, v |-> JNum(NumOf(toks[i])), next |-> i + 1]
    ELSE IF toks[i] = "{"
         THEN IF i + 1 <= Len(toks) /\ toks[i + 1] = "}"
              THEN [ok |-> TRUE, v |-> JObj(<<>>), next |-> i + 2]
              ELSE ParseMembers(toks, i + 1, <<>>)
    ELSE NoParse
ParseMembers(toks, i, acc) ==
    IF i > Len(toks) \/ toks[i] # Q THEN NoParse
    ELSE LET k == ParseString(toks, i + 1)
         IN  IF ~k.ok \/ k.next > Len(toks) \/ toks[k.next] # ": " THEN NoParse
             ELSE LET val == ParseValue(toks, k.next + 1)
                  IN  IF ~val.ok \/ val.next > Len(toks) THEN NoParse
                      ELSE LET items == Append(acc, <<Flat(k.s), val.v>>)
                           IN  IF toks[val.next] = "}"
                               THEN [ok |-> TRUE, v |-> JObj(items), next |-> val.next + 1]
                               ELSE IF toks[val.next] = ", "
                               THEN ParseMembers(toks, val.next + 1, items)
                               ELSE NoParse

Loads(toks) ==
    LET r == ParseValue(toks, 1)
    IN  IF r.ok /\ r.next = Len(toks) + 1 THEN [ok |-> TRUE, v |-> r.v] ELSE NoParse

\* dict.get(key): the last member of that name, None when there is none
RECURSIVE Get(_, _)
Get(items, key) ==
    IF items = <<>> THEN JNull
    ELSE IF items[Len(items)][1] = key THEN items[Len(items)][2]
    ELSE Get(SubSeq(items, 1, Len(items) - 1), key)

\* ------------------------------------------------------- the handler unit
\* the file DataProcessor is constructed with (main: filepath)
HandlerFile == "another_main.py"
HostFile == "test.py"

\* A handler unit: whether the file exists, and its top-level statements in
\* order; a statement defines a capability or raises.  The unit of kind
\* "example" is src/another_main.py: "globals" stands for its lines 1-15
\* (the import, my_calculator, foo_value = None, bar_value = None) and its
\* capabilities do what the source does.  The capabilities of a unit of kind
\* "any" may print, return any of HandlerResults, raise or exit.
HandlerUnits ==
    { [kind |-> "any", exists |-> TRUE, body |-> <<"on_create", "on_receive", "on_destroy">>],
      [kind |-> "any", exists |-> TRUE, body |-> <<"on_create", "on_receive">>],
      [kind |-> "any", exists |-> TRUE, body |-> <<"on_create", "raise", "on_receive">>],
      [kind |-> "any", exists |-> FALSE, body |-> <<>>],
      [kind |-> "example", exists |-> TRUE,
       body |-> <<"globals", "on_create", "on_receive", "on_destroy">>] }

\* what a capability may return: nothing, a mapping, a mapping json cannot
\* encode, a value that is not a mapping
HandlerResults ==
    { JNull,
      JObj(<< <<"x", JNum(1)>> >>),
      JObj(<< <<"x", PyOpaque>> >>),
      JStr(<<"done">>) }

\* ------------------------------------------------------------ input lines
Request(ev) == JObj(<< <<"Event", JStr(<<ev>>)>>, <<"Data", JObj(<<>>)>> >>)

\* a request whose Data is {key: "value"}
RequestWith(ev, key, value) ==
    JObj(<< <<"Event", JStr(<<ev>>)>>,
            <<"Data", JObj(<< <<key, JStr(<<value>>)>> >>)>> >>)

InputLines ==
    { Dumps(Request(ev)) : ev \in {"OnCreate", "OnReceive", "OnDestroy", "OnFoo"} }
    \cup { Dumps(RequestWith("OnCreate", "foo", "20")),
           Dumps(RequestWith("OnReceive", "bar", "10")) }
    \cup { Dumps(JObj(<< <<"Data", JObj(<<>>)>> >>)),  \* an object with no Event
           <<"1">>,                                     \* JSON, not an object
           <<"not json">> }                             \* not JSON

\* ------------------------------------------------------------------ state
VARIABLES
    handler,      \* the handler unit on disk
    pc,           \* where start_listening is
    cur,          \* number of input lines read
    lines,        \* the input lines read so far, each with what it decodes to
    event_type,   \* event.get("Event") of the current line
    event_data,   \* event.get("Data") of the current line
    outcome,      \* how the with block of the current line ended
    sys_stdout,   \* what sys.stdout is bound to: "real" or "interceptor"
    old_stdout,   \* the sink stdout_interceptor saved
    self_module,  \* DataProcessor.module: 0 is None, else an index of modules
    modules,      \* the module objects created by module_from_spec
    th,           \* the worker threads of execute_with_timeout, one per line
    out,          \* the lines written to the real output stream
    err,          \* the diagnostics written to the diagnostic stream
    exited        \* the process has ended

vars == <<handler, pc, cur, lines, event_type, event_data, outcome, sys_stdout,
          old_stdout, self_module, modules, th, out, err, exited>>

NoException == [kind |-> "none"]
Exc(kind, msg, tb) == [kind |-> kind, msg |-> msg, tb |-> tb]
NoOutcome == [kind |-> "none"]

\* wrote: the input line being served when the call last wrote a global of
\* the handler (0: it has not); prior: the calls that had written one when
\* this call entered its capability; fb: the local foo_bar of on_receive
IdleThread ==
    [pc |-> "idle", func |-> "", m |-> 0, ip |-> 0, early |-> FALSE,
     prints |-> 0, how |-> "", result |-> JNull, exception |-> NoException,
     wrote |-> 0, prior |-> {}, fb |-> <<>>]

Init ==
    /\ handler \in HandlerUnits
    /\ pc = "read"
    /\ cur = 0
    /\ lines = <<>>
    /\ event_type = JNull
    /\ event_data = JNull
    /\ outcome = NoOutcome
    /\ sys_stdout = "real"
    /\ old_stdout = "real"
    /\ self_module = 0
    /\ modules = <<>>
    /\ th = [k \in 1..MaxLines |-> IdleThread]
    /\ out = <<>>
    /\ err = <<>>
    /\ exited = FALSE

\* ---------------------------------------------------------------- output
\* str.strip() of a text: blank tokens at both ends go
Blank == {"", " ", "\n"}
RECURSIVE LStrip(_)
LStrip(toks) ==
    IF toks # <<>> /\ Head(toks) \in Blank THEN LStrip(Tail(toks)) ELSE toks
RECURSIVE RStrip(_)
RStrip(toks) ==
    IF toks # <<>> /\ toks[Len(toks)] \in Blank
    THEN RStrip(SubSeq(toks, 1, Len(toks) - 1)) ELSE toks
Strip(toks) == RStrip(LStrip(toks))

Response(event, status, data) ==
    JObj(<< <<"Event", event>>, <<"Status", JStr(<<status>>)>>, <<"Data", data>> >>)

get_standard_output_message(message) ==
    Dumps(Response(JStr(<<"StandardOutput">>), "ok", JStr(message))) \o <<"\n">>

\* One write on the real stream.  obj: what a reader of the stream decodes
\* the line to; line: the input line being served by the writer; by: "host"
\* or "handler"; via: "direct" or "interceptor".
Written(text, line, by, via) ==
    [text |-> text, obj |-> Loads(Strip(text)), line |-> line, by |-> by, via |-> via]

\* OutputInterceptor.write(message) on stream o
InterceptorWrite(o, message, line, by) ==
    IF Strip(message) # <<>>
    THEN Append(o, Written(get_standard_output_message(Strip(message)), line, by,
                           "interceptor"))
    ELSE o

\* file.write(message) on whatever sink is given
SinkWrite(sink, o, message, line, by) ==
    IF sink = "interceptor" THEN InterceptorWrite(o, message, line, by)
    ELSE Append(o, Written(message, line, by, "direct"))

\* print(text) with sys.stdout bound to sink: the text and the newline are
\* written one after the other; on the real stream they make one line
PrintOn(sink, o, text, line, by) ==
    IF sink = "interceptor"
    THEN InterceptorWrite(InterceptorWrite(o, text, line, by), <<"\n">>, line, by)
    ELSE SinkWrite(sink, o, text \o <<"\n">>, line, by)

\* print_output(event, status, message) with sys.stdout bound to sink
print_output(sink, o, event, status, message, line) ==
    PrintOn(sink, o, Dumps(Response(event, status, JStr(message))), line, "host")

ErrorResult ==
    JObj(<< <<"status", JStr(<<"error">>)>>,
            <<"message", JStr(<<"see error log for details">>)>> >>)

\* faulty variant: print_error that writes the diagnostic only
print_error_out_Silent(sink, o, event, line) == o

\* print_error(event, message): the stream part
print_error_out(sink, o, event, line) ==
    print_output(sink, o, event, "error", Dumps(ErrorResult), line)

\* print_error(event, message): the diagnostic part
print_error_err(e, message, line) ==
    Append(e, [text |-> message \o <<"\n", "\n">>, line |-> line])

\* str(v) of a decoded JSON value inside an f-string
PyStr(v) ==
    CASE v.t = "str" -> v.s
      [] v.t = "null" -> <<"None">>
      [] v.t = "num" -> <<ToString(v.n)>>
      [] v.t = "float" -> <<FloatText(v.n)>>
      [] v.t = "obj" -> <<"{...}">>
      [] OTHER -> <<"<object>">>

PyTypeName(v) ==
    CASE v.t = "str" -> "str"
      [] v.t = "null" -> "NoneType"
      [] v.t = "num" -> "int"
      [] v.t = "float" -> "float"
      [] v.t = "obj" -> "dict"
      [] OTHER -> "object"

\* ------------------------------------------------------------ tracebacks
Frame(file, fn) == [file |-> file, fn |-> fn]
HostFrame(fn) == Frame(<<HostFile>>, fn)
HandlerFrame(fn) == Frame(<<HandlerFile>>, fn)
HelperFrame(fn) == Frame(<<"calculator/", "helper.py">>, fn)

\* needle in hay, for a file name that is one token of a path
Contains(hay, needle) == \E i \in 1..Len(hay) : hay[i] = needle

RECURSIVE FormatList(_)
FormatList(tb) ==
    IF tb = <<>> THEN <<>>
    ELSE <<"  File ", Q>> \o Head(tb).file \o <<Q, ", in ", Head(tb).fn, "\n">>
         \o FormatList(Tail(tb))

\* filter_processor_traceback(exc): the listing from the first frame of the
\* processor script on, or the placeholder
filter_processor_traceback(exc) ==
    LET hits == {i \in 1..Len(exc.tb) : Contains(exc.tb[i].file, HandlerFile)}
    IN  IF hits # {}
        THEN LET first == CHOOSE i \in hits : \A j \in hits : i <= j
             IN  FormatList(SubSeq(exc.tb, first, Len(exc.tb)))
        ELSE <<"No relevant stack trace found from the processor script.">>

\* ------------------------------------------------------------ dispatcher
KnownEvents == {"OnCreate", "OnReceive", "OnDestroy"}

IsKnown(ev) == ev.t = "str" /\ Len(ev.s) = 1 /\ ev.s[1] \in KnownEvents

\* the capability an event is routed to (lines 131-136)
CapabilityOf(ev) ==
    CASE ev.s[1] = "OnCreate" -> "on_create"
      [] ev.s[1] = "OnReceive" -> "on_receive"
      [] ev.s[1] = "OnDestroy" -> "on_destroy"

\* faulty variant: a line that does not decode is skipped
AfterDecode_Skip(event) == IF event.ok /\ IsDict(event.v) THEN "dispatch" ELSE "read"

\* Where start_listening goes once json.loads has run on a line: a line that
\* is not JSON raises ValueError, a JSON value that is not an object raises
\* AttributeError at event.get, and both leave start_listening (lines 120-127).
AfterDecode(event) == IF event.ok /\ IsDict(event.v) THEN "dispatch" ELSE "raised"

\* for line in sys.stdin; json.loads(line.strip()); event.get(...)
ReadLine ==
    /\ pc = "read"
    /\ cur < MaxLines
    /\ \E line \in InputLines :
         LET event == Loads(Strip(line))
         IN  /\ lines' = Append(lines, [text |-> line, req |-> event])
             /\ cur' = cur + 1
             /\ pc' = AfterDecode(event)
             /\ IF event.ok /\ IsDict(event.v)
                THEN /\ event_type' = Get(event.v.items, "Event")
                     /\ event_data' = Get(event.v.items, "Data")
                ELSE UNCHANGED <<event_type, event_data>>
    /\ outcome' = NoOutcome
    /\ UNCHANGED <<exited, handler, sys_stdout, old_stdout, self_module, modules, th, out, err>>

\* sys.stdin is at end-of-stream: the for loop ends, start_listening returns
EndOfInput ==
    /\ pc = "read"
    /\ pc' = "returned"
    /\ UNCHANGED <<exited, handler, cur, lines, event_type, event_data, outcome, sys_stdout,
                   old_stdout, self_module, modules, th, out, err>>

\* stdout_interceptor, before the yield (lines 93-94): the sink in place is
\* saved and sys.stdout becomes an OutputInterceptor writing to it
Acquire(sink) == [old |-> sink, now |-> "interceptor"]

\* faulty variant: the finally left out, the interceptor stays in place
Release_Keep(saved) == "interceptor"

\* stdout_interceptor, the finally (line 98)
Release(saved) == saved

\* a known event: the with block is entered and execute_with_timeout starts
\* the worker thread, then joins it (lines 130-136, 74-76)
StartCall ==
    /\ pc = "dispatch"
    /\ IsKnown(event_type)
    /\ old_stdout' = Acquire(sys_stdout).old
    /\ sys_stdout' = Acquire(sys_stdout).now
    /\ th' = [th EXCEPT ![cur] = [IdleThread EXCEPT !.pc = "start",
                                                     !.func = CapabilityOf(event_type)]]
    /\ pc' = "join"
    /\ UNCHANGED <<exited, handler, cur, lines, event_type, event_data, outcome, self_module,
                   modules, out, err>>

\* any other event: print_error inside the with block, then continue, which
\* runs the finally of the interceptor (lines 130, 137-139)
UnknownEvent ==
    /\ pc = "dispatch"
    /\ ~IsKnown(event_type)
    /\ err' = print_error_err(err, <<"Unknown event type: ">> \o PyStr(event_type), cur)
    /\ out' = print_error_out(Acquire(sys_stdout).now, out, event_type, cur)
    /\ old_stdout' = Acquire(sys_stdout).old
    /\ sys_stdout' = Release(Acquire(sys_stdout).old)
    /\ outcome' = [kind |-> "continue"]
    /\ pc' = "read"
    /\ UNCHANGED <<exited, handler, cur, lines, event_type, event_data, self_module, modules, th>>

\* thread.join(self.timeout) returned and the thread is not alive: the
\* exception is raised again in the dispatcher, or the result returned; the
\* with block is left (lines 78-83, 98)
JoinDone ==
    /\ pc = "join"
    /\ th[cur].pc = "dead"
    /\ outcome' =
         IF th[cur].exception.kind # "none"
         THEN [kind |-> "exc",
               e |-> [th[cur].exception EXCEPT
                        !.tb = <<HostFrame("start_listening"),
                                 HostFrame("execute_with_timeout")>> \o @]]
         ELSE [kind |-> "result", v |-> th[cur].result]
    /\ sys_stdout' = Release(old_stdout)
    /\ pc' = "respond"
    /\ UNCHANGED <<exited, handler, cur, lines, event_type, event_data, old_stdout,
                   self_module, modules, th, out, err>>

\* faulty variant: thread.join() with no deadline never gives up on the thread
JoinTimeout_NoDeadline == FALSE /\ UNCHANGED vars

\* faulty variant: the thread is stopped when its call is given up
JoinTimeout_Kill ==
    /\ pc = "join"
    /\ th[cur].pc # "dead"
    /\ outcome' = [kind |-> "timeout"]
    /\ sys_stdout' = Release(old_stdout)
    /\ th' = [th EXCEPT ![cur].pc = "dead"]
    /\ pc' = "respond"
    /\ UNCHANGED <<exited, handler, cur, lines, event_type, event_data, old_stdout,
                   self_module, modules, out, err>>

\* thread.join(self.timeout) returned and the thread is alive: TimeoutError
\* leaves the with block; the thread is left running (lines 78-79, 98)
JoinTimeout ==
    /\ pc = "join"
    /\ th[cur].pc # "dead"
    /\ outcome' = [kind |-> "timeout"]
    /\ sys_stdout' = Release(old_stdout)
    /\ pc' = "respond"
    /\ UNCHANGED <<exited, handler, cur, lines, event_type, event_data, old_stdout,
                   self_module, modules, th, out, err>>

DefaultResult ==
    JObj(<< <<"status", JStr(<<"default">>)>>,
            <<"message", JStr(<<"No result generated">>)>> >>)

\* lines 149-150
ResultOrDefault(result) == IF result = JNull THEN DefaultResult ELSE result

\* faulty variant: the isinstance check left out
ResultValid_NoTypeCheck(result) == Serializable(result)

\* lines 153-161: the result is a dict json.dumps can encode
ResultValid(result) == IsDict(result) /\ Serializable(result)

\* what except TimeoutError (line 140) catches: the TimeoutError of line 79
\* and a TimeoutError raised in the call and raised again at line 81
IsTimeoutError(o) ==
    o.kind = "timeout" \/ (o.kind = "exc" /\ o.e.kind = "TimeoutError")

\* what reaches except Exception (line 143): any other exception of the call
CaughtAsException(o) == o.kind = "exc" /\ ~IsTimeoutError(o)

\* except TimeoutError: print_error, continue (lines 140-142)
RespondTimeout ==
    /\ pc = "respond"
    /\ IsTimeoutError(outcome)
    /\ err' = print_error_err(err, <<"Error: Function timed out">>, cur)
    /\ out' = print_error_out(sys_stdout, out, event_type, cur)
    /\ pc' = "read"
    /\ UNCHANGED <<exited, handler, cur, lines, event_type, event_data, outcome, sys_stdout,
                   old_stdout, self_module, modules, th>>

\* faulty variant: the error is logged and raised again instead of answered
RespondException_Reraise ==
    /\ pc = "respond"
    /\ outcome.kind = "exc"
    /\ err' = print_error_err(err, <<"Error: ">> \o outcome.e.msg, cur)
    /\ pc' = "raised"
    /\ UNCHANGED <<exited, handler, cur, lines, event_type, event_data, outcome, sys_stdout,
                   old_stdout, self_module, modules, th, out>>

\* except Exception: the filtered traceback, print_error, continue
\* (lines 143-146)
RespondException ==
    /\ pc = "respond"
    /\ CaughtAsException(outcome)
    /\ err' = print_error_err(err,
                 <<"Error: ">> \o outcome.e.msg \o <<"\nProcessor traceback:\n">>
                 \o filter_processor_traceback(outcome.e), cur)
    /\ out' = print_error_out(sys_stdout, out, event_type, cur)
    /\ pc' = "read"
    /\ UNCHANGED <<exited, handler, cur, lines, event_type, event_data, outcome, sys_stdout,
                   old_stdout, self_module, modules, th>>

\* the call returned: the default for None, the dict check, json.dumps, and
\* print_output or print_error (lines 148-163)
RespondResult ==
    /\ pc = "respond"
    /\ outcome.kind = "result"
    /\ LET result == ResultOrDefault(outcome.v)
       IN  IF ResultValid(result)
           THEN /\ out' = print_output(sys_stdout, out, event_type, "ok",
                                       Dumps(result), cur)
                /\ err' = err
           ELSE /\ err' = print_error_err(err,
                            <<"Invalid result format. Expecting a dictionary, got ",
                              PyTypeName(result), ": ">> \o PyStr(result), cur)
                /\ out' = print_error_out(sys_stdout, out, event_type, cur)
    /\ pc' = "read"
    /\ UNCHANGED <<exited, handler, cur, lines, event_type, event_data, outcome, sys_stdout,
                   old_stdout, self_module, modules, th>>

\* ------------------------------------------------------- worker threads
\* Thread k runs target() of the call made for input line k: func is the
\* capability execute_on_<...> looks up.  A thread that takes no step is a
\* call that has not got further yet; nothing ever stops a thread.
WorkerFrames(k) == <<HostFrame("target"), HostFrame("execute_" \o th[k].func)>>


\* The dispatcher is blocked in thread.join on thread k.  The cells result and
\* exception of target() belong to one execute_with_timeout call: once that
\* call has raised TimeoutError nothing reads them again, so what a thread
\* stores in them after that is not kept.
Waited(k) == pc = "join" /\ cur = k

\* except Exception as e: exception = e, and the thread ends
Die(k, exception) ==
    th' = [th EXCEPT ![k].pc = "dead",
                     ![k].how = IF Waited(k) THEN "raised" ELSE "",
                     ![k].exception = IF Waited(k) THEN exception ELSE NoException]

\* if self.module is None (lines 35, 45, 55)
WCheckModule(k) ==
    /\ th[k].pc = "start"
    /\ th' = [th EXCEPT ![k].pc = IF self_module = 0 THEN "load" ELSE "hasattr"]
    /\ UNCHANGED <<exited, handler, pc, cur, lines, event_type, event_data, outcome, sys_stdout,
                   old_stdout, self_module, modules, out, err>>

\* _load_module (lines 26-31): the file is looked up, self.module becomes a
\* new module object and exec_module starts the unit's top-level
\* initialization on it
WLoadModule(k) ==
    /\ th[k].pc = "load"
    /\ IF handler.exists
       THEN /\ modules' = Append(modules, [attrs |-> {}, done |-> FALSE,
                                          foo |-> JNull, bar |-> JNull])
            /\ self_module' = Len(modules) + 1
            /\ th' = [th EXCEPT ![k].pc = "exec", ![k].m = Len(modules) + 1, ![k].ip = 1]
       ELSE /\ Die(k, Exc("FileNotFoundError",
                          <<"File ", HandlerFile, " does not exist">>,
                          WorkerFrames(k) \o <<HostFrame("_load_module")>>))
            /\ UNCHANGED <<modules, self_module>>
    /\ UNCHANGED <<exited, handler, pc, cur, lines, event_type, event_data, outcome, sys_stdout,
                   old_stdout, out, err>>

\* one top-level statement of the unit; exec_module returns after the last
WExecStatement(k) ==
    /\ th[k].pc = "exec"
    /\ IF handler.body[th[k].ip] = "raise"
       THEN /\ Die(k, Exc("RuntimeError", <<"initialization failed">>,
                          WorkerFrames(k) \o <<HostFrame("_load_module"),
                                               HandlerFrame("<module>")>>))
            /\ UNCHANGED modules
       ELSE /\ modules' = [modules EXCEPT
                             ![th[k].m].attrs = @ \cup {handler.body[th[k].ip]},
                             ![th[k].m].done = (th[k].ip = Len(handler.body))]
            /\ th' = [th EXCEPT ![k].ip = @ + 1,
                                ![k].pc = IF th[k].ip = Len(handler.body)
                                          THEN "hasattr" ELSE "exec"]
    /\ UNCHANGED <<exited, handler, pc, cur, lines, event_type, event_data, outcome, sys_stdout,
                   old_stdout, self_module, out, err>>

\* if hasattr(self.module, name): return self.module.name(data), else raise
\* AttributeError (lines 38-41).  m is the module object the capability is
\* entered on; early records that its initialization had not run to
\* completion.
WInvoke(k) ==
    /\ th[k].pc = "hasattr"
    /\ IF th[k].func \in modules[self_module].attrs
       THEN th' = [th EXCEPT ![k].pc = "call",
                             ![k].m = self_module,
                             ![k].ip = 1,
                             ![k].prior = {i \in 1..MaxLines : th[i].wrote # 0},
                             ![k].early = ~modules[self_module].done]
       ELSE Die(k, Exc("AttributeError",
                       <<"The module does not have an '", th[k].func, "' function.">>,
                       WorkerFrames(k)))
    /\ UNCHANGED <<exited, handler, pc, cur, lines, event_type, event_data, outcome, sys_stdout,
                   old_stdout, self_module, modules, out, err>>

\* the capability prints: print looks sys.stdout up when it is called
WPrint(k) ==
    /\ th[k].pc = "call"
    /\ handler.kind = "any"
    /\ th[k].prints < MaxPrints
    /\ th' = [th EXCEPT ![k].prints = @ + 1]
    /\ out' = PrintOn(sys_stdout, out, <<"hello">>, k, "handler")
    /\ UNCHANGED <<exited, handler, pc, cur, lines, event_type, event_data, outcome, sys_stdout,
                   old_stdout, self_module, modules, err>>

\* the capability returns: result = func(*args), and the thread ends
WReturn(k) ==
    /\ th[k].pc = "call"
    /\ handler.kind = "any"
    /\ \E r \in (IF Waited(k) THEN HandlerResults ELSE {JNull}) :
         th' = [th EXCEPT ![k].pc = "dead",
                          ![k].how = IF Waited(k) THEN "returned" ELSE "",
                          ![k].result = r]
    /\ UNCHANGED <<exited, handler, pc, cur, lines, event_type, event_data, outcome, sys_stdout,
                   old_stdout, self_module, modules, out, err>>

\* the exceptions a capability raises: one that is a TimeoutError (a socket
\* or queue timeout of its own) and one that is not
HandlerErrors == {"ValueError", "TimeoutError"}

\* the capability raises an Exception, in a helper it calls:
\* except Exception as e: exception = e
WRaise(k) ==
    /\ th[k].pc = "call"
    /\ handler.kind = "any"
    /\ \E kind \in (IF Waited(k) THEN HandlerErrors ELSE {"ValueError"}) :
         Die(k, Exc(kind, <<"handler failed">>,
                    WorkerFrames(k) \o <<HandlerFrame(th[k].func), HelperFrame("add")>>))
    /\ UNCHANGED <<exited, handler, pc, cur, lines, event_type, event_data, outcome, sys_stdout,
                   old_stdout, self_module, modules, out, err>>

\* the capability raises what except Exception does not catch (SystemExit):
\* the thread ends with neither a result nor an exception stored
WExit(k) ==
    /\ th[k].pc = "call"
    /\ handler.kind = "any"
    /\ th' = [th EXCEPT ![k].pc = "dead", ![k].how = IF Waited(k) THEN "exit" ELSE ""]
    /\ UNCHANGED <<exited, handler, pc, cur, lines, event_type, event_data, outcome, sys_stdout,
                   old_stdout, self_module, modules, out, err>>

\* ---------------------------------------- the unit src/another_main.py
\* the argument execute_with_timeout passes on: event_data of the line
ArgOf(k) == Get(lines[k].req.v.items, "Data")

\* dict.get(key, default)
Has(items, key) == \E i \in 1..Len(items) : items[i][1] = key
DictGet(items, key, default) == IF Has(items, key) THEN Get(items, key) ELSE default

\* float(v): a number, or a string that reads as one; TypeError for None and
\* for a mapping, ValueError for any other string
CanFloat(v) ==
    \/ v.t \in {"num", "float"}
    \/ v.t = "str" /\ Len(v.s) = 1 /\ \E n \in 0..MaxFloat : ToString(n) = v.s[1]
FloatOf(v) ==
    IF v.t = "str" THEN CHOOSE n \in 0..MaxFloat : ToString(n) = v.s[1] ELSE v.n
FloatError(v) ==
    IF v.t = "str"
    THEN Exc("ValueError", <<"could not convert string to float: '">> \o v.s \o <<"'">>, <<>>)
    ELSE Exc("TypeError",
             <<"float() argument must be a string or a real number, not '",
               PyTypeName(v), "'">>, <<>>)

\* Calculator.add, subtract, multiply of calculator.helper
Calculator_add(a, b) == a + b
Calculator_subtract(a, b) == a - b
Calculator_multiply(a, b) == a * b

ExampleFrames(k) == WorkerFrames(k) \o <<HandlerFrame(th[k].func)>>

\* the global a capability assigns, the key it reads and the default
\* (on_create lines 18-19, on_receive lines 34-35)
StoredBy(k) ==
    IF th[k].func = "on_create"
    THEN [key |-> "foo", default |-> JNum(0)]
    ELSE [key |-> "bar", default |-> modules[th[k].m].bar]

\* foo_value = float(data.get("foo", 0)) and bar_value = float(data.get("bar",
\* bar_value)): the global of the module the function was defined in is
\* assigned, or data.get or float raises
WStore(k) ==
    /\ th[k].pc = "call"
    /\ handler.kind = "example"
    /\ th[k].func \in {"on_create", "on_receive"}
    /\ th[k].ip = 1
    /\ LET data == ArgOf(k)
           g == StoredBy(k)
       IN  IF ~IsDict(data)
           THEN /\ Die(k, Exc("AttributeError",
                              <<"'", PyTypeName(data), "' object has no attribute 'get'">>,
                              ExampleFrames(k)))
                /\ UNCHANGED modules
           ELSE LET v == DictGet(data.items, g.key, g.default)
                IN  IF ~CanFloat(v)
                    THEN /\ Die(k, [FloatError(v) EXCEPT !.tb = ExampleFrames(k)])
                         /\ UNCHANGED modules
                    ELSE /\ modules' =
                              IF g.key = "foo"
                              THEN [modules EXCEPT ![th[k].m].foo = PyFloat(FloatOf(v))]
                              ELSE [modules EXCEPT ![th[k].m].bar = PyFloat(FloatOf(v))]
                         /\ th' = [th EXCEPT ![k].ip = 2, ![k].wrote = cur]
    /\ UNCHANGED <<exited, handler, pc, cur, lines, event_type, event_data, outcome, sys_stdout,
                   old_stdout, self_module, out, err>>

\* on_receive lines 38-40: foo_bar = f"{foo_value}_{bar_value}", then print
WFooBar(k) ==
    /\ th[k].pc = "call"
    /\ handler.kind = "example"
    /\ th[k].func = "on_receive"
    /\ th[k].ip = 2
    /\ th' = [th EXCEPT ![k].ip = 3,
                        ![k].prints = 1,
                        ![k].fb = PyStr(modules[th[k].m].foo) \o <<"_">>
                                  \o PyStr(modules[th[k].m].bar)]
    /\ out' = PrintOn(sys_stdout, out,
                      <<"executing on_receive of another_main.py from a public repo">>,
                      k, "handler")
    /\ UNCHANGED <<exited, handler, pc, cur, lines, event_type, event_data, outcome, sys_stdout,
                   old_stdout, self_module, modules, err>>

\* f"{a} <op> {b} = {r}" of on_receive lines 44-46
Equation(a, op, b, r) ==
    <<FloatText(a), op, FloatText(b), " = ", FloatText(r)>>

\* what the capability of thread k returns (lines 20-22, 42-47, 57-60)
ExampleResult(k) ==
    LET foo == modules[th[k].m].foo
        bar == modules[th[k].m].bar
    IN  CASE th[k].func = "on_create" -> JObj(<< <<"initialized_foo", foo>> >>)
          [] th[k].func = "on_destroy" ->
               JObj(<< <<"final_foo", foo>>, <<"final_bar", bar>> >>)
          [] th[k].func = "on_receive" ->
               JObj(<< <<"foobar", JStr(th[k].fb)>>,
                       <<"sum", JStr(Equation(foo.n, " + ", bar.n,
                                              Calculator_add(foo.n, bar.n)))>>,
                       <<"diff", JStr(Equation(foo.n, " - ", bar.n,
                                               Calculator_subtract(foo.n, bar.n)))>>,
                       <<"product", JStr(Equation(foo.n, " * ", bar.n,
                                                  Calculator_multiply(foo.n, bar.n)))>> >>)

\* the return statement of the capability; in on_receive the arithmetic on a
\* foo_value that is still None raises inside the helper
WExampleReturn(k) ==
    /\ th[k].pc = "call"
    /\ handler.kind = "example"
    /\ \/ th[k].func = "on_create" /\ th[k].ip = 2
       \/ th[k].func = "on_receive" /\ th[k].ip = 3
       \/ th[k].func = "on_destroy" /\ th[k].ip = 1
    /\ IF th[k].func = "on_receive" /\ modules[th[k].m].foo = JNull
       THEN Die(k, Exc("TypeError",
                       <<"unsupported operand type(s) for +: 'NoneType' and 'float'">>,
                       ExampleFrames(k) \o <<HelperFrame("add")>>))
       ELSE th' = [th EXCEPT ![k].pc = "dead",
                             ![k].fb = <<>>,
                             ![k].how = IF Waited(k) THEN "returned" ELSE "",
                             ![k].result = IF Waited(k) THEN ExampleResult(k) ELSE JNull]
    /\ UNCHANGED <<exited, handler, pc, cur, lines, event_type, event_data, outcome, sys_stdout,
                   old_stdout, self_module, modules, out, err>>

Worker(k) ==
    \/ WStore(k)
    \/ WFooBar(k)
    \/ WExampleReturn(k)
    \/ WCheckModule(k)
    \/ WLoadModule(k)
    \/ WExecStatement(k)
    \/ WInvoke(k)
    \/ WPrint(k)
    \/ WReturn(k)
    \/ WRaise(k)
    \/ WExit(k)

\* start_listening has returned or raised and the main thread is through:
\* the interpreter joins every thread that is not a daemon (the workers of
\* line 74 are not) and the process ends when none is alive
ProcessExit ==
    /\ pc \in {"returned", "raised"}
    /\ \A k \in 1..MaxLines : th[k].pc \in {"idle", "dead"}
    /\ ~exited
    /\ exited' = TRUE
    /\ UNCHANGED <<handler, pc, cur, lines, event_type, event_data, outcome, sys_stdout,
                   old_stdout, self_module, modules, th, out, err>>

Dispatcher ==
    \/ ReadLine
    \/ EndOfInput
    \/ StartCall
    \/ UnknownEvent
    \/ JoinDone
    \/ JoinTimeout
    \/ RespondTimeout
    \/ RespondException
    \/ RespondResult

Next ==
    \/ Dispatcher
    \/ \E k \in 1..MaxLines : Worker(k)
    \/ ProcessExit

Spec == Init /\ [][Next]_vars

\* =================================================================== claims
\* What a reader of the streams sees.

\* the request input line k decodes to
DecodedLine(k) == lines[k].req
IsRequest(k) == DecodedLine(k).ok /\ IsDict(DecodedLine(k).v)
EventOfLine(k) == Get(DecodedLine(k).v.items, "Event")
IsKnownRequest(k) == IsRequest(k) /\ IsKnown(EventOfLine(k))

\* the unit on disk defines capability c
CapabilityExists(c) ==
    handler.exists /\ \E i \in 1..Len(handler.body) : handler.body[i] = c

\* the dispatcher is through with line k
Finished(k) == k < cur \/ (k = cur /\ pc \in {"read", "returned"})

\* line i of the output stream, decoded
DecodedOut(i) == out[i].obj
IsProtocol(d) ==
    /\ d.ok
    /\ IsDict(d.v)
    /\ Len(d.v.items) = 3
    /\ {d.v.items[j][1] : j \in 1..3} = {"Event", "Status", "Data"}
IsProtocolObject(i) == IsProtocol(DecodedOut(i))
OutField(i, name) == Get(DecodedOut(i).v.items, name)

\* line i of the output stream is a terminal response to input line k
IsTerminalFor(i, k) ==
    /\ out[i].line = k
    /\ LET d == DecodedOut(i)
       IN  /\ IsProtocol(d)
           /\ Get(d.v.items, "Event") = EventOfLine(k)
           /\ Get(d.v.items, "Status") \in {JStr(<<"ok">>), JStr(<<"error">>)}
TerminalLines(k) == {i \in 1..Len(out) : IsTerminalFor(i, k)}

IsStandardOutput(i) ==
    LET d == DecodedOut(i)
    IN  /\ IsProtocol(d)
        /\ Get(d.v.items, "Event") = JStr(<<"StandardOutput">>)
        /\ Get(d.v.items, "Status") = JStr(<<"ok">>)

\* the diagnostics written for input line k
Diagnostics(k) == {j \in 1..Len(err) : err[j].line = k}

\* the call for line k was declared timed out
DeclaredTimedOut(k) ==
    \/ k = cur /\ outcome.kind = "timeout"
    \/ \E j \in Diagnostics(k) : err[j].text[1] = "Error: Function timed out"

\* C1: every input line that decodes to a request with a known event whose
\* capability exists on the handler gets exactly one terminal response line
\* (that Event, Status ok or error) once the dispatcher is through with it,
\* whatever the outcome of the call, and none before.
C1_OneTerminalResponse ==
    \A k \in 1..cur :
        IsKnownRequest(k) /\ CapabilityExists(CapabilityOf(EventOfLine(k)))
        => IF Finished(k)
           THEN Cardinality(TerminalLines(k)) = 1
           ELSE TerminalLines(k) = {}

\* a request with an existing capability was answered once although its call
\* is still running (it was declared timed out), after one that returned
C1_Witness ==
    /\ cur = 2
    /\ \A k \in 1..2 :
         /\ IsKnownRequest(k) /\ CapabilityExists(CapabilityOf(EventOfLine(k)))
         /\ Finished(k)
         /\ Cardinality(TerminalLines(k)) = 1
    /\ th[1].how = "returned"
    /\ th[2].pc = "call"

\* C2: a request with an unknown Event value v gets a terminal response line
\* {Event: v, Status: "error", Data: "see error log for details"} on the
\* output stream and a diagnostic containing "Unknown event type: v".
C2_UnknownEventResponse ==
    \A k \in 1..cur :
        IsRequest(k) /\ ~IsKnown(EventOfLine(k)) /\ Finished(k)
        => /\ \E i \in 1..Len(out) :
                /\ out[i].line = k
                /\ IsProtocolObject(i)
                /\ OutField(i, "Event") = EventOfLine(k)
                /\ OutField(i, "Status") = JStr(<<"error">>)
                /\ OutField(i, "Data") = JStr(<<"see error log for details">>)
           /\ \E j \in Diagnostics(k) :
                SubSeq(err[j].text, 1, 1 + Len(PyStr(EventOfLine(k))))
                  = <<"Unknown event type: ">> \o PyStr(EventOfLine(k))

\* What the code writes for an unknown event: print_error runs inside the
\* with block, so the response is the Data text of a StandardOutput line.
UnknownEventIsWrapped ==
    \A k \in 1..cur :
        IsRequest(k) /\ ~IsKnown(EventOfLine(k)) /\ Finished(k)
        => /\ TerminalLines(k) = {}
           /\ \E i \in 1..Len(out) :
                /\ out[i].line = k
                /\ IsStandardOutput(i)
                /\ Loads(OutField(i, "Data").s)
                     = [ok |-> TRUE,
                        v |-> Response(EventOfLine(k), "error", JStr(Dumps(ErrorResult)))]

\* the lines the dispatcher itself wrote while serving input line k
HostLines(k) == {i \in 1..Len(out) : out[i].line = k /\ out[i].by = "host"}

\* input line k is a request that ended in an error path: print_error ran
IsErrorLine(k) == IsRequest(k) /\ Finished(k) /\ Diagnostics(k) # {}

\* the text {"status": "error", "message": "see error log for details"}
ErrorDataText ==
    <<"{", Q, "status", Q, ": ", Q, "error", Q, ", ", Q, "message", Q, ": ", Q,
      "see error log for details", Q, "}">>

\* C3 as stated: every error path gives the response {Event: the request's
\* event, Status: "error", Data: the plain string "see error log for
\* details"}.
C3_PlainErrorData ==
    \A k \in 1..cur :
        IsErrorLine(k)
        => \E i \in HostLines(k) :
              /\ IsProtocolObject(i)
              /\ OutField(i, "Event") = EventOfLine(k)
              /\ OutField(i, "Status") = JStr(<<"error">>)
              /\ OutField(i, "Data") = JStr(<<"see error log for details">>)

\* What the code does on an error path: it hands print_output the same
\* response, {Event: the request's event, Status: "error", Data: the JSON text of the mapping
\* {"status": "error", "message": "see error log for details"}}, with no
\* error message or trace text in it.  After a dispatched call (missing
\* capability, raise, timeout, non-mapping result) it is the one line the
\* dispatcher writes for the request; for an unknown event it is the Data
\* text of the one StandardOutput line the dispatcher writes.
ErrorResponseShape ==
    \A k \in 1..cur :
        IsErrorLine(k)
        => LET response ==
                   [ok |-> TRUE,
                    v |-> Response(EventOfLine(k), "error", JStr(ErrorDataText))]
           IN  /\ Cardinality(HostLines(k)) = 1
               /\ \A i \in HostLines(k) :
                     IF IsKnown(EventOfLine(k))
                     THEN out[i].obj = response
                     ELSE /\ IsStandardOutput(i)
                          /\ Loads(OutField(i, "Data").s) = response

\* C4: the top-level initialization of the handler unit is executed at most
\* once in the process lifetime (every module object _load_module creates
\* is one execution of it).
C4_LoadAtMostOnce == Len(modules) <= 1

\* C5: no capability is entered on a module whose top-level initialization
\* has not run to completion.
C5_InitBeforeCapability == \A k \in 1..MaxLines : ~th[k].early

\* a handler call is in flight: the capability was entered and has not ended
InFlight(k) == th[k].pc = "call"
Running(k) == th[k].pc \notin {"idle", "dead"}

\* C6 as stated: at most one lifecycle call is in flight at any moment.
C6_NoOverlap == Cardinality({k \in 1..MaxLines : InFlight(k)}) <= 1

\* What the code keeps: at most one call that has not been declared timed
\* out is running, and it is the one the dispatcher is blocked on; a call
\* that was declared timed out may run on while later calls execute.
OneWaitedCall ==
    \A k \in 1..MaxLines : Running(k) => Waited(k) \/ DeclaredTimedOut(k)

\* C7: a call that does not finish within the deadline gets one error
\* response and every later request is answered; the dispatcher is never
\* blocked by a call: whatever the worker threads do, the join has a way out,
\* and with a call still running after its timeout the next line can be read.
C7_TimeoutDoesNotBlock ==
    /\ \A k \in 1..cur :
          DeclaredTimedOut(k) /\ Finished(k)
          => /\ Cardinality(TerminalLines(k)) = 1
             /\ \A i \in TerminalLines(k) : OutField(i, "Status") = JStr(<<"error">>)
             /\ \A j \in (k + 1)..cur : IsRequest(j) /\ Finished(j) => HostLines(j) # {}
    /\ pc = "join" => ENABLED (JoinDone \/ JoinTimeout)
    /\ \A k \in 1..cur :
          DeclaredTimedOut(k) /\ Running(k) /\ pc = "read" /\ cur < MaxLines
          => ENABLED ReadLine

\* the call of line 1 was declared timed out and is still running, and line 2
\* has been served with an ok response
C7_Witness ==
    /\ cur = 2
    /\ DeclaredTimedOut(1) /\ Running(1)
    /\ Finished(2)
    /\ \E i \in TerminalLines(2) : OutField(i, "Status") = JStr(<<"ok">>)

\* C8: an error of a recoverable kind (unknown event, missing capability,
\* handler error, timeout, result shape: each writes a diagnostic) is settled
\* within its own line: start_listening is not left by it, and the next line
\* is read and dispatched.
C8_RecoverableErrorsStayInLoop ==
    /\ \A k \in 1..cur : Diagnostics(k) # {} => IsRequest(k) /\ Finished(k)
    /\ pc = "raised" => Diagnostics(cur) = {}
    /\ Diagnostics(cur) # {} /\ pc = "read" /\ cur < MaxLines => ENABLED ReadLine
    /\ pc = "dispatch" /\ IsKnown(event_type) => ENABLED StartCall

\* line 1 failed for a missing capability, line 2 after it has been read and
\* its call started
C8_Witness ==
    /\ cur = 2
    /\ \E j \in Diagnostics(1) : err[j].text[2] = "The module does not have an '"
    /\ pc = "join"
    /\ th[2].pc = "start"

\* C9: a line that does not decode to a JSON object ends start_listening by
\* a raise, with nothing written for it and no line read after it; nothing
\* else ends the loop before the end of the input.
C9_MalformedLineIsFatal ==
    /\ \A k \in 1..cur :
          ~IsRequest(k)
          => /\ k = cur
             /\ pc = "raised"
             /\ \A i \in 1..Len(out) : out[i].by = "host" => out[i].line # k
             /\ Diagnostics(k) = {}
    /\ pc = "raised" => cur >= 1 /\ ~IsRequest(cur)

\* after a served request, a line that is JSON but not an object has ended
\* the loop
C9_Witness ==
    /\ cur = 2
    /\ pc = "raised"
    /\ HostLines(1) # {}
    /\ lines[2].req.ok /\ ~IsDict(lines[2].req.v)

\* the text {"status": "default", "message": "No result generated"}
DefaultDataText ==
    <<"{", Q, "status", Q, ": ", Q, "default", Q, ", ", Q, "message", Q, ": ", Q,
      "No result generated", Q, "}">>

\* the call for line k returned r to the dispatcher
Returned(k, r) ==
    IsKnownRequest(k) /\ Finished(k) /\ th[k].how = "returned" /\ th[k].result = r

\* the ok response to line k whose Data is the JSON text of mapping r
OkWithEncoded(k, r) ==
    \E i \in HostLines(k) :
        /\ IsTerminalFor(i, k)
        /\ OutField(i, "Status") = JStr(<<"ok">>)
        /\ OutField(i, "Data").t = "str"
        /\ Loads(OutField(i, "Data").s) = [ok |-> TRUE, v |-> r]

\* no response to line k has Status ok
NeverOk(k) == \A i \in HostLines(k) : OutField(i, "Status") # JStr(<<"ok">>)

\* C10 as stated: whenever the capability returns to the dispatcher, a
\* returned mapping is answered with Status ok and a Data string holding the
\* JSON encoding of the mapping, a call that returned nothing with the
\* encoding of the default mapping, and a returned value that is not a mapping
\* never with Status ok.
C10_ReturnIsOk ==
    \A k \in 1..cur : \A r \in HandlerResults :
        Returned(k, r)
        => IF r = JNull THEN OkWithEncoded(k, DefaultResult)
           ELSE IF IsDict(r) THEN OkWithEncoded(k, r)
           ELSE NeverOk(k)

\* C10: a returned mapping that json can encode is answered with Status ok
\* and a Data string that is the JSON text of the mapping ({"x": 1} gives the
\* string {"x": 1}, not a nested object); a call that returned nothing with
\* the text of the default mapping; a returned value that is not a mapping,
\* or a mapping json cannot encode, never with Status ok.
C10_OkDataIsEncodedResult ==
    \A k \in 1..cur : \A r \in HandlerResults :
        Returned(k, r)
        => IF r = JNull
           THEN /\ OkWithEncoded(k, DefaultResult)
                /\ \E i \in HostLines(k) :
                      out[i].obj = [ok |-> TRUE,
                                    v |-> Response(EventOfLine(k), "ok",
                                                   JStr(DefaultDataText))]
           ELSE IF IsDict(r) /\ Serializable(r)
           THEN /\ OkWithEncoded(k, r)
                /\ r = JObj(<< <<"x", JNum(1)>> >>)
                     => \E i \in HostLines(k) :
                           /\ OutField(i, "Data").t = "str"
                           /\ Flat(OutField(i, "Data").s) = "{\"x\": 1}"
           ELSE NeverOk(k)

\* {"x": 1} was returned for line 1 and nothing for line 2, and both were
\* answered ok
C10_Witness ==
    /\ cur = 2
    /\ Returned(1, JObj(<< <<"x", JNum(1)>> >>))
    /\ Returned(2, JNull)
    /\ \A k \in 1..2 : \E i \in HostLines(k) : OutField(i, "Status") = JStr(<<"ok">>)
    /\ \E i \in HostLines(1) : Flat(OutField(i, "Data").s) = "{\"x\": 1}"

\* -------------------------------------------------------------- C11
IsEventLine(k, ev) == IsRequest(k) /\ EventOfLine(k) = JStr(<<ev>>)

\* OnDestroy leaves the loop running: start_listening is not left by it, the
\* next line can be read, and every request after it is answered.
OnDestroyKeepsLoop ==
    \A k \in 1..cur :
        IsEventLine(k, "OnDestroy")
        => /\ pc = "raised" => k < cur
           /\ k = cur /\ pc = "read" /\ cur < MaxLines => ENABLED ReadLine
           /\ \A j \in (k + 1)..cur : IsRequest(j) /\ Finished(j) => HostLines(j) # {}

\* C11: OnDestroy does not end the loop, and every request after it is read,
\* dispatched to the same loaded handler (the module object the OnDestroy
\* call ran on) and answered.
C11_OnDestroyNotTerminal ==
    /\ OnDestroyKeepsLoop
    /\ \A k \in 1..cur : \A j \in (k + 1)..cur :
          IsEventLine(k, "OnDestroy") /\ th[k].pc = "call" /\ th[j].pc = "call"
          => th[j].m = th[k].m

\* -------------------------------------------------------------- C13
\* line i of the stream is the wrapped text of a write of the call for line k
IsHandlerOutput(i, k) ==
    out[i].line = k /\ out[i].by = "handler" /\ out[i].via = "interceptor"

\* C13: a StandardOutput line of the call for input line k comes before the
\* terminal response of k and after everything written for earlier input
\* lines, and nothing written for a later input line comes before it.
C13_OutputInsideOwnSegment ==
    \A k \in 1..cur : \A i \in 1..Len(out) :
        IsHandlerOutput(i, k)
        => /\ \A j \in TerminalLines(k) : i < j
           /\ \A j \in 1..Len(out) : out[j].line < k /\ out[j].by = "host" => j < i
           /\ \A j \in 1..Len(out) : out[j].line > k => i < j

\* What the code keeps: the output of a call that was not declared timed out
\* lies inside the segment of its own line.
WaitedOutputInsideOwnSegment ==
    \A k \in 1..cur : \A i \in 1..Len(out) :
        IsHandlerOutput(i, k) /\ ~DeclaredTimedOut(k)
        => /\ \A j \in TerminalLines(k) : i < j
           /\ \A j \in 1..Len(out) : out[j].line < k /\ out[j].by = "host" => j < i

\* -------------------------------------------------------------- C14
\* C14: whenever the dispatcher is not inside the with block of a call (it
\* reads a line, it writes the response of a call that timed out, raised or
\* returned, it has left the loop), sys.stdout is the original sink.
C14_SinkRestored == pc # "join" => sys_stdout = "real"

\* the call of line 1 timed out and was answered, the call of line 2 raised
\* and the dispatcher is about to answer it
C14_Witness ==
    /\ cur = 2
    /\ DeclaredTimedOut(1)
    /\ pc = "respond"
    /\ outcome.kind = "exc"
    /\ sys_stdout = "real"

\* -------------------------------------------------------------- C17
HandlerFramesOf(tb) == SelectSeq(tb, LAMBDA f : Contains(f.file, HandlerFile))

\* C17: the listing filter_processor_traceback gives for a raised error holds
\* the frames of the handler file and no other, and is the placeholder when
\* there is none.
C17_OnlyHandlerFrames ==
    pc = "respond" /\ outcome.kind = "exc"
    => filter_processor_traceback(outcome.e)
         = IF HandlerFramesOf(outcome.e.tb) = <<>>
           THEN <<"No relevant stack trace found from the processor script.">>
           ELSE FormatList(HandlerFramesOf(outcome.e.tb))

\* What the code keeps: no frame of the host is in the listing.
NoHostFrameListed ==
    pc = "respond" /\ outcome.kind = "exc"
    => LET listing == filter_processor_traceback(outcome.e)
       IN  \A i \in 1..Len(listing) : listing[i] # HostFile

\* -------------------------------------------------------------- C18
\* C18: every line on the real output stream is one complete protocol object
\* with the fields Event, Status and Data.
C18_EveryLineIsProtocol == \A i \in 1..Len(out) : IsProtocolObject(i)

\* What the code keeps: what goes through the interceptor, and what the
\* dispatcher writes, is a protocol object.
HostLinesAreProtocol ==
    \A i \in 1..Len(out) :
        out[i].by = "host" \/ out[i].via = "interceptor" => IsProtocolObject(i)

\* -------------------------------------------------------------- C19
\* C19: an ok response is written for an input line only if the capability
\* invoked for it returned.
C19_OkOnlyAfterReturn ==
    \A k \in 1..cur : \A i \in HostLines(k) :
        IsTerminalFor(i, k) /\ OutField(i, "Status") = JStr(<<"ok">>)
        => th[k].how = "returned"

\* -------------------------------------------------------------- C15
\* the call for line k raised before the deadline; it was still running at
\* the deadline
RaisedInTime(k) == IsKnownRequest(k) /\ Finished(k) /\ th[k].how = "raised"
RanOutOfTime(k) == IsKnownRequest(k) /\ Finished(k) /\ th[k].how = ""

\* the diagnostics of line k report a timeout; an execution failure with the
\* error's message and the filtered trace
ReportsTimeout(k) ==
    \E j \in Diagnostics(k) : err[j].text[1] = "Error: Function timed out"
ReportsFailure(k) ==
    \E j \in Diagnostics(k) :
        /\ err[j].text[1] = "Error: "
        /\ SubSeq(err[j].text, 2, 1 + Len(th[k].exception.msg)) = th[k].exception.msg
        /\ err[j].text[2 + Len(th[k].exception.msg)] = "\nProcessor traceback:\n"

\* C15: a call that raised before the deadline is reported as an execution
\* failure with the error's message and the filtered trace, never as a
\* timeout; a timeout is reported only for a call that was still running at
\* the deadline.
C15_ErrorIsNotTimeout ==
    \A k \in 1..cur :
        /\ RaisedInTime(k) => ReportsFailure(k) /\ ~ReportsTimeout(k)
        /\ IsKnownRequest(k) /\ ReportsTimeout(k) => RanOutOfTime(k)

\* What the code keeps: a call still running at the deadline is reported as
\* a timeout, and a raised error that is not a TimeoutError as a failure.
OtherErrorsAreNotTimeout ==
    \A k \in 1..cur :
        /\ RanOutOfTime(k) => ReportsTimeout(k)
        /\ RaisedInTime(k) /\ th[k].exception.kind # "TimeoutError"
           => ReportsFailure(k) /\ ~ReportsTimeout(k)

\* -------------------------------------------------------------- C12
IsLine(k, request) == lines[k].req = [ok |-> TRUE, v |-> request]

\* the terminal response of line j is ok and its decoded Data has foobar =
\* "20.0_10.0"
AnsweredFoobar(j) ==
    \E i \in TerminalLines(j) :
        /\ OutField(i, "Status") = JStr(<<"ok">>)
        /\ OutField(i, "Data").t = "str"
        /\ LET data == Loads(OutField(i, "Data").s)
           IN  /\ data.ok /\ IsDict(data.v)
               /\ Get(data.v.items, "foobar").t = "str"
               /\ Flat(Get(data.v.items, "foobar").s) = "20.0_10.0"

\* line k is OnCreate with {"foo": "20"}, a later line j is OnReceive with
\* {"bar": "10"}, the call of k had stored foo_value when the call of j
\* entered on_receive, and the call of j ended within the deadline
CreateThenReceive(k, j) ==
    /\ handler.kind = "example"
    /\ k < j /\ j <= cur
    /\ IsLine(k, RequestWith("OnCreate", "foo", "20"))
    /\ IsLine(j, RequestWith("OnReceive", "bar", "10"))
    /\ k \in th[j].prior
    /\ Finished(j)
    /\ th[j].how # ""

\* C12: the state one call wrote is visible to the call of a later line:
\* OnCreate with {"foo": "20"} followed by OnReceive with {"bar": "10"} gives
\* an ok response whose decoded Data has "foobar": "20.0_10.0".
C12_StateVisibleToLaterCalls ==
    \A k, j \in 1..cur : CreateThenReceive(k, j) => AnsweredFoobar(j)

\* What the code keeps: the same when no call before the OnReceive was
\* declared timed out.
StateVisibleWithoutTimeouts ==
    \A k, j \in 1..cur :
        CreateThenReceive(k, j) /\ (\A i \in 1..(j - 1) : ~ReportsTimeout(i))
        => AnsweredFoobar(j)

\* both lines served by the example unit, the second answered with foobar
FoobarAnswered ==
    /\ cur = 2
    /\ CreateThenReceive(1, 2)
    /\ AnsweredFoobar(2)

\* -------------------------------------------------------------- C16
\* C16: nothing but the thread itself changes a running worker thread: the
\* host never ends the thread of a call, also not of one it declared timed
\* out, so such a call runs on and writes the handler's globals while a later
\* input line is being served.
C16_TimedOutCallRunsOn ==
    [][\A k \in 1..MaxLines : Running(k) /\ th'[k] # th[k] => Worker(k)]_vars

\* the call of line 1 was declared timed out and answered, line 2 is being
\* served, and the call of line 1 has just assigned foo_value
C16_Witness ==
    /\ cur = 2
    /\ ReportsTimeout(1)
    /\ th[1].pc = "call"
    /\ th[1].wrote = 2
    /\ modules[th[1].m].foo # JNull

\* -------------------------------------------------------------- C20
\* C20: once the input is at end-of-stream and the last response is written
\* (start_listening has returned), the end of the process waits for nothing:
\* it can exit, whatever the worker of a call that was declared timed out
\* does or fails to do.
C20_ExitAtEndOfInput == pc = "returned" /\ ~exited => ENABLED ProcessExit

\* What the code keeps: the process can exit at the end of the input once
\* every worker thread has ended.
ExitAfterWorkersEnded ==
    pc = "returned" /\ ~exited /\ (\A k \in 1..MaxLines : ~Running(k))
    => ENABLED ProcessExit
====
